---- MODULE Spec2Model ----
(***************************************************************************)
(* Model of epg_filter.py: the whitelist loader (read_channel_list), the   *)
(* source loop (get_epg_data, filter_channels), the two deduplication      *)
(* loops and the writer (generate_custom_epg).                             *)
(*                                                                         *)
(* Strings are sequences of one-character strings, so that str.strip,      *)
(* str.split and the f-string keys "{a}_{b}" are computed, not assumed.    *)
(* An optional value (None, a missing XML attribute, an absent file) is    *)
(* the empty sequence <<>>; a present value v is <<v>>.                    *)
(***************************************************************************)
EXTENDS Integers, Sequences, FiniteSets, TLC

VARIABLES
    pc,                      \* position in the script
    lines,                   \* the whitelist file: <<>> (missing) or <<sequence of lines>>
    line_num,                \* number of lines consumed by the loop of read_channel_list
    channel_dict,            \* the dict, in insertion order: sequence of [key, info]
    current_country,         \* <<>> (None) or <<country line>>
    url_idx,                 \* number of URLs of RAW_EPG_URLS already fetched
    fetched,                 \* history: for each URL so far, how get_epg_data ended and
                             \* the root attributes and size of the document it parsed
    epg_root,                \* <<>> (None) or <<document>>: result of the last get_epg_data
    first_epg_root,          \* <<>> (None) or <<document>>
    chs,                     \* filter_channels' last result: channels
    progs,                   \* filter_channels' last result: programmes
    all_filtered_channels,
    all_filtered_programmes,
    unique_channels,
    unique_programmes,
    output_file,             \* <<>> (not written) or <<[attrib, children]>>
    exit_status              \* <<>> (running) or <<code>>

vars == <<pc, lines, line_num, channel_dict, current_country, url_idx, fetched,
          epg_root, first_epg_root, chs, progs, all_filtered_channels,
          all_filtered_programmes, unique_channels, unique_programmes,
          output_file, exit_status>>

(***************************************************************************)
(* Bounds.                                                                 *)
(***************************************************************************)
MaxLines == 3            \* lines of a whitelist file
MaxSources == 2          \* URLs of RAW_EPG_URLS
MaxElements == 4         \* child elements of all the documents fetched in a run
MaxFilterChildren == 3   \* child elements of a document given to filter_channels alone

(***************************************************************************)
(* Strings.                                                                *)
(***************************************************************************)
Whitespace == {" "}

Range(s) == {s[i] : i \in 1..Len(s)}

RECURSIVE LStrip(_)
LStrip(s) == IF s # <<>> /\ Head(s) \in Whitespace THEN LStrip(Tail(s)) ELSE s

RECURSIVE RStrip(_)
RStrip(s) ==
    IF s # <<>> /\ s[Len(s)] \in Whitespace THEN RStrip(SubSeq(s, 1, Len(s) - 1)) ELSE s

\* str.strip()
Strip(s) == RStrip(LStrip(s))

\* str.split(",")
RECURSIVE Split(_)
Split(s) ==
    IF "," \notin Range(s)
    THEN <<s>>
    ELSE LET i == CHOOSE k \in 1..Len(s) : s[k] = "," /\ \A j \in 1..(k - 1) : s[j] # ","
         IN  <<SubSeq(s, 1, i - 1)>> \o Split(SubSeq(s, i + 1, Len(s)))

\* f"{x}_{y}"
Key(x, y) == x \o <<"_">> \o y

\* element.get(name, ""): a missing attribute reads as the empty string
Get(attr) == IF attr = <<>> THEN <<>> ELSE attr[1]

(***************************************************************************)
(* read_channel_list                                                       *)
(***************************************************************************)
\* channel_dict[key] = info
DictSet(d, key, info) ==
    IF \E i \in 1..Len(d) : d[i].key = key
    THEN [i \in 1..Len(d) |-> IF d[i].key = key THEN [key |-> key, info |-> info] ELSE d[i]]
    ELSE Append(d, [key |-> key, info |-> info])

\* ReadChannelLine with the field count tested by "len(fields) < 3"
ReadChannelLine_AtLeast3(d, country, raw) ==
    LET line == Strip(raw)
        fields == Split(line)
        tvg_id == Strip(fields[1])
        tvg_name == Strip(fields[2])
        remark == Strip(fields[3])
    IN  IF line = <<>> \/ Head(line) = "#" THEN <<d, country>>
        ELSE IF "," \notin Range(line) THEN <<d, <<line>> >>
        ELSE IF Len(fields) < 3 THEN <<d, country>>
        ELSE IF country = <<>> THEN <<d, country>>
        ELSE IF tvg_id = <<>> /\ tvg_name = <<>> THEN <<d, country>>
        ELSE <<DictSet(d, Key(tvg_id, tvg_name), <<tvg_id, tvg_name, country[1], remark>>),
               country>>

\* One iteration of the loop over the lines: the new <<channel_dict, current_country>>.
ReadChannelLine(d, country, raw) ==
    LET line == Strip(raw)
        fields == Split(line)
        tvg_id == Strip(fields[1])
        tvg_name == Strip(fields[2])
        remark == Strip(fields[3])
    IN  IF line = <<>> \/ Head(line) = "#" THEN <<d, country>>
        ELSE IF "," \notin Range(line) THEN <<d, <<line>> >>
        ELSE IF Len(fields) # 3 THEN <<d, country>>
        ELSE IF country = <<>> THEN <<d, country>>
        ELSE IF tvg_id = <<>> /\ tvg_name = <<>> THEN <<d, country>>
        ELSE <<DictSet(d, Key(tvg_id, tvg_name), <<tvg_id, tvg_name, country[1], remark>>),
               country>>

\* os.path.exists(txt_path) is false: the empty dict is returned
FileMissing ==
    /\ pc = "start"
    /\ lines = <<>>
    /\ pc' = "check"
    /\ UNCHANGED <<lines, line_num, channel_dict, current_country, url_idx, fetched,
                   epg_root, first_epg_root, chs, progs, all_filtered_channels,
                   all_filtered_programmes, unique_channels, unique_programmes,
                   output_file, exit_status>>

\* f.readlines()
ReadLines ==
    /\ pc = "start"
    /\ lines # <<>>
    /\ pc' = "read"
    /\ UNCHANGED <<lines, line_num, channel_dict, current_country, url_idx, fetched,
                   epg_root, first_epg_root, chs, progs, all_filtered_channels,
                   all_filtered_programmes, unique_channels, unique_programmes,
                   output_file, exit_status>>

\* the body of "for line_num, line in enumerate(lines, 1)"
ReadLine ==
    /\ pc = "read"
    /\ line_num < Len(lines[1])
    /\ LET r == ReadChannelLine(channel_dict, current_country, lines[1][line_num + 1])
       IN  /\ channel_dict' = r[1]
           /\ current_country' = r[2]
    /\ line_num' = line_num + 1
    /\ UNCHANGED <<pc, lines, url_idx, fetched, epg_root, first_epg_root, chs, progs,
                   all_filtered_channels, all_filtered_programmes, unique_channels,
                   unique_programmes, output_file, exit_status>>

\* return channel_dict
ReadReturn ==
    /\ pc = "read"
    /\ line_num = Len(lines[1])
    /\ pc' = "check"
    /\ UNCHANGED <<lines, line_num, channel_dict, current_country, url_idx, fetched,
                   epg_root, first_epg_root, chs, progs, all_filtered_channels,
                   all_filtered_programmes, unique_channels, unique_programmes,
                   output_file, exit_status>>

(***************************************************************************)
(* Whitelist files.                                                        *)
(***************************************************************************)
LinePool ==
    { <<>>,                                   \* blank
      <<"#", "a", ",", "b", ",", "x">>,       \* comment
      <<"U">>,                                \* country
      <<" ", "F">>,                           \* country, padded
      <<"a", ",", "b", ",", "x">>,            \* a,b,x
      <<" ", "a", " ", ",", "b", ",", "y">>,  \* padded a,b,y
      <<"a", "_", "b", ",", "c", ",", "x">>,  \* a_b,c,x
      <<"a", ",", "b", "_", "c", ",", "x">>,  \* a,b_c,x
      <<"a", ",", ",", "x">>,                 \* a,,x
      <<",", "c", ",", "x">>,                 \* ,c,x
      <<",", " ", ",", "x">>,                 \* both empty
      <<"a", ",", "b">>,                      \* two fields
      <<"a", ",", "b", ",", "x", ",", "y">> } \* four fields

SeqsUpTo(S, n) == UNION {[1..k -> S] : k \in 0..n}

InitRest ==
    /\ pc = "start"
    /\ line_num = 0
    /\ channel_dict = <<>>
    /\ current_country = <<>>
    /\ url_idx = 0
    /\ fetched = <<>>
    /\ epg_root = <<>>
    /\ first_epg_root = <<>>
    /\ chs = <<>>
    /\ progs = <<>>
    /\ all_filtered_channels = <<>>
    /\ all_filtered_programmes = <<>>
    /\ unique_channels = <<>>
    /\ unique_programmes = <<>>
    /\ exit_status = <<>>

\* read_channel_list over every file of at most MaxLines lines
LoaderInit ==
    /\ lines \in {<<>>} \cup {<<f>> : f \in SeqsUpTo(LinePool, MaxLines)}
    /\ output_file = <<>>
    /\ InitRest

LoaderNext == FileMissing \/ ReadLines \/ ReadLine \/ ReadReturn

LoaderSpec == LoaderInit /\ [][LoaderNext]_vars

(***************************************************************************)
(* XML documents.  An element is a record: its tag, its attributes id,     *)
(* channel and start (each <<>> when missing, else <<string>>), the texts  *)
(* of its display-name children (each <<>> for None, else <<string>>) and  *)
(* uid, the identity of the object: <<url number, child position>>.        *)
(***************************************************************************)
El(tag, id, channel, start, names) ==
    [tag |-> tag, id |-> id, channel |-> channel, start |-> start, names |-> names,
     uid |-> <<0, 0>>]

\* epg_root.findall(tag): the direct children with that tag, in document order
FindAll(root, tag) == LET Is(e) == e.tag = tag IN SelectSeq(root.children, Is)

\* bool(element): an Element without children is false
Truthy(opt) == opt # <<>> /\ Len(opt[1].children) # 0

(***************************************************************************)
(* get_epg_data                                                            *)
(***************************************************************************)
\* ET.fromstring(response.content): the elements of the document of URL n are new objects
Parse(doc, n) ==
    [attrib |-> doc.attrib,
     children |-> [i \in 1..Len(doc.children) |-> [doc.children[i] EXCEPT !.uid = <<n, i>>]]]

\* What get_epg_data returns for a response
GetEpgResult(resp, n) == IF resp.kind = "ok" THEN <<Parse(resp.doc, n)>> ELSE <<>>

(***************************************************************************)
(* filter_channels                                                         *)
(***************************************************************************)
target_tvg_ids(d) ==
    LET NonEmpty(e) == e.info[1] # <<>>
        kept == SelectSeq(d, NonEmpty)
    IN  [i \in 1..Len(kept) |-> kept[i].info[1]]

target_tvg_names(d) ==
    LET NonEmpty(e) == e.info[2] # <<>>
        kept == SelectSeq(d, NonEmpty)
    IN  [i \in 1..Len(kept) |-> kept[i].info[2]]

\* the first display-name whose text is not None and not blank, stripped; else ""
RECURSIVE FirstDisplayName(_)
FirstDisplayName(names) ==
    IF names = <<>> THEN <<>>
    ELSE IF Head(names) # <<>> /\ Strip(Head(names)[1]) # <<>> THEN Strip(Head(names)[1])
    ELSE FirstDisplayName(Tail(names))

\* is_matched with "and" in place of "or"
is_matched_and(channel, d) ==
    /\ Strip(Get(channel.id)) \in Range(target_tvg_ids(d))
    /\ FirstDisplayName(channel.names) \in Range(target_tvg_names(d))

is_matched(channel, d) ==
    \/ Strip(Get(channel.id)) \in Range(target_tvg_ids(d))
    \/ FirstDisplayName(channel.names) \in Range(target_tvg_names(d))

FilteredChannels(root, d) ==
    LET Keep(ch) == is_matched(ch, d) IN SelectSeq(FindAll(root, "channel"), Keep)

\* filtered_tvg_ids without its "if ch.get("id")"
filtered_tvg_ids_all(channels) ==
    [i \in 1..Len(channels) |-> Strip(Get(channels[i].id))]

\* [ch.get("id", "").strip() for ch in filtered_channels if ch.get("id")]
filtered_tvg_ids(channels) ==
    LET HasId(ch) == ch.id # <<>> /\ ch.id[1] # <<>>
        kept == SelectSeq(channels, HasId)
    IN  [i \in 1..Len(kept) |-> Strip(Get(kept[i].id))]

\* FilteredProgrammes without the membership test
FilteredProgrammes_all(root, channels) == FindAll(root, "programme")

FilteredProgrammes(root, channels) ==
    LET Keep(p) == Strip(Get(p.channel)) \in Range(filtered_tvg_ids(channels))
    IN  SelectSeq(FindAll(root, "programme"), Keep)

(***************************************************************************)
(* Deduplication (the two loops of __main__)                               *)
(***************************************************************************)
\* ChannelKey without the strip
ChannelKey_raw(ch) == Get(ch.id)

ChannelKey(ch) == Strip(Get(ch.id))

ProgrammeKey(p) == Key(Strip(Get(p.start)), Strip(Get(p.channel)))

\* for ch in all_filtered_channels: keep ch unless its key was seen
RECURSIVE DedupeChannels(_, _)
DedupeChannels(list, seen) ==
    IF list = <<>> THEN <<>>
    ELSE IF ChannelKey(Head(list)) \notin seen
         THEN <<Head(list)>> \o DedupeChannels(Tail(list), seen \cup {ChannelKey(Head(list))})
         ELSE DedupeChannels(Tail(list), seen)

RECURSIVE DedupeProgrammes(_, _)
DedupeProgrammes(list, seen) ==
    IF list = <<>> THEN <<>>
    ELSE IF ProgrammeKey(Head(list)) \notin seen
         THEN <<Head(list)>>
              \o DedupeProgrammes(Tail(list), seen \cup {ProgrammeKey(Head(list))})
         ELSE DedupeProgrammes(Tail(list), seen)

(***************************************************************************)
(* generate_custom_epg: the file it leaves behind                          *)
(***************************************************************************)
\* generate_custom_epg without its "if not filtered_channels" guard
generate_custom_epg_always(channels, programmes, root, file) ==
    << [attrib |-> root.attrib, children |-> channels \o programmes] >>

generate_custom_epg(channels, programmes, root, file) ==
    IF channels = <<>> THEN file
    ELSE << [attrib |-> root.attrib, children |-> channels \o programmes] >>

(***************************************************************************)
(* __main__                                                                *)
(***************************************************************************)
\* if not channel_dict: exit(1)
CheckWhitelist ==
    /\ pc = "check"
    /\ IF channel_dict = <<>>
       THEN pc' = "exited" /\ exit_status' = <<1>>
       ELSE pc' = "loop" /\ exit_status' = exit_status
    /\ UNCHANGED <<lines, line_num, channel_dict, current_country, url_idx, fetched,
                   epg_root, first_epg_root, chs, progs, all_filtered_channels,
                   all_filtered_programmes, unique_channels, unique_programmes,
                   output_file>>

\* epg_root = get_epg_data(url), for the next URL, which answers with one of `responses`
GetEpgData(responses) ==
    /\ pc = "loop"
    /\ url_idx < MaxSources
    /\ \E resp \in responses :
        /\ epg_root' = GetEpgResult(resp, url_idx + 1)
        /\ fetched' = Append(fetched, [kind |-> resp.kind, attrib |-> resp.doc.attrib,
                                       size |-> Len(resp.doc.children)])
    /\ url_idx' = url_idx + 1
    /\ pc' = "fetched"
    /\ UNCHANGED <<lines, line_num, channel_dict, current_country, first_epg_root, chs,
                   progs, all_filtered_channels, all_filtered_programmes,
                   unique_channels, unique_programmes, output_file, exit_status>>

\* if not epg_root: continue
SkipSource ==
    /\ pc = "fetched"
    /\ ~Truthy(epg_root)
    /\ pc' = "loop"
    /\ UNCHANGED <<lines, line_num, channel_dict, current_country, url_idx, fetched,
                   epg_root, first_epg_root, chs, progs, all_filtered_channels,
                   all_filtered_programmes, unique_channels, unique_programmes,
                   output_file, exit_status>>

\* the rest of the loop body: first_epg_root, filter_channels, the two extend calls
FilterSource ==
    /\ pc = "fetched"
    /\ Truthy(epg_root)
    /\ first_epg_root' = IF ~Truthy(first_epg_root) THEN epg_root ELSE first_epg_root
    /\ chs' = FilteredChannels(epg_root[1], channel_dict)
    /\ progs' = FilteredProgrammes(epg_root[1], chs')
    /\ all_filtered_channels' = all_filtered_channels \o chs'
    /\ all_filtered_programmes' = all_filtered_programmes \o progs'
    /\ pc' = "loop"
    /\ UNCHANGED <<lines, line_num, channel_dict, current_country, url_idx, fetched,
                   epg_root, unique_channels, unique_programmes, output_file,
                   exit_status>>

\* the two deduplication loops
Dedupe ==
    /\ pc = "loop"
    /\ url_idx = MaxSources
    /\ unique_channels' = DedupeChannels(all_filtered_channels, {})
    /\ unique_programmes' = DedupeProgrammes(all_filtered_programmes, {})
    /\ pc' = "generate"
    /\ UNCHANGED <<lines, line_num, channel_dict, current_country, url_idx, fetched,
                   epg_root, first_epg_root, chs, progs, all_filtered_channels,
                   all_filtered_programmes, output_file, exit_status>>

\* Generate with the lack of any EPG data made fatal
Generate_FailsWithoutRoot ==
    /\ pc = "generate"
    /\ output_file' = IF Truthy(first_epg_root)
                      THEN generate_custom_epg(unique_channels, unique_programmes,
                                               first_epg_root[1], output_file)
                      ELSE output_file
    /\ pc' = "done"
    /\ exit_status' = IF Truthy(first_epg_root) THEN <<0>> ELSE <<1>>
    /\ UNCHANGED <<lines, line_num, channel_dict, current_country, url_idx, fetched,
                   epg_root, first_epg_root, chs, progs, all_filtered_channels,
                   all_filtered_programmes, unique_channels, unique_programmes>>

\* if first_epg_root: generate_custom_epg(...); the script then runs off its end
Generate ==
    /\ pc = "generate"
    /\ output_file' = IF Truthy(first_epg_root)
                      THEN generate_custom_epg(unique_channels, unique_programmes,
                                               first_epg_root[1], output_file)
                      ELSE output_file
    /\ pc' = "done"
    /\ exit_status' = <<0>>
    /\ UNCHANGED <<lines, line_num, channel_dict, current_country, url_idx, fetched,
                   epg_root, first_epg_root, chs, progs, all_filtered_channels,
                   all_filtered_programmes, unique_channels, unique_programmes>>

(***************************************************************************)
(* Inputs.                                                                 *)
(***************************************************************************)
Some(s) == <<s>>

File_Missing == <<>>
File_CountryOnly == << << <<"U">> >> >>
File_NoCountry == << << <<"a", ",", "b", ",", "x">> >> >>
\* ids a, _a; names b, c
File_IdsAndNames ==
    << << <<"U">>, <<"a", ",", "b", ",", "x">>, <<"_", "a", ",", "c", ",", "x">> >> >>
\* name c only
File_NameOnly == << << <<"U">>, <<",", "c", ",", "x">> >> >>

WhitelistFiles ==
    {File_Missing, File_CountryOnly, File_NoCountry, File_IdsAndNames, File_NameOnly}

Ch_a == El("channel", Some(<<"a">>), <<>>, <<>>, <<>>)
Ch_a_padded == El("channel", Some(<<" ", "a", " ">>), <<>>, <<>>, <<Some(<<"z">>)>>)
Ch_ua == El("channel", Some(<<"_", "a">>), <<>>, <<>>, <<<<>>, Some(<<" ", "c">>)>>)
Ch_noid == El("channel", <<>>, <<>>, <<>>, <<Some(<<"c">>)>>)
Ch_blankid == El("channel", Some(<<" ">>), <<>>, <<>>, <<Some(<<"c">>)>>)
Ch_z == El("channel", Some(<<"z">>), <<>>, <<>>, <<Some(<<"z">>), Some(<<"c">>)>>)
Ch_empty == El("channel", Some(<<>>), <<>>, <<>>, <<Some(<<" ">>)>>)

Pr_s_a == El("programme", <<>>, Some(<<"a">>), Some(<<"s">>), <<>>)
Pr_su_a == El("programme", <<>>, Some(<<"a">>), Some(<<"s", "_">>), <<>>)
Pr_s_ua == El("programme", <<>>, Some(<<"_", "a">>), Some(<<"s">>), <<>>)
Pr_padded == El("programme", <<>>, Some(<<"a", " ">>), Some(<<" ", "s">>), <<>>)
Pr_nochannel == El("programme", <<>>, <<>>, Some(<<"s">>), <<>>)
Pr_z == El("programme", <<>>, Some(<<"z">>), Some(<<"s">>), <<>>)

Other == El("other", <<>>, <<>>, <<>>, <<>>)

\* The elements of the documents of a whole run
ElementPool == {Ch_a, Ch_a_padded, Ch_noid, Pr_s_a, Pr_padded}

\* The elements of the documents filter_channels is checked on
FilterPool ==
    {Ch_a, Ch_a_padded, Ch_ua, Ch_noid, Ch_blankid, Ch_z, Ch_empty,
     Pr_s_a, Pr_su_a, Pr_padded, Pr_s_ua, Pr_nochannel, Pr_z, Other}

\* The documents of at most n elements of pool that URL u may serve: the root's
\* attributes name the source
Docs(pool, n, u) ==
    { [attrib |-> [source |-> u], children |-> c] : c \in SeqsUpTo(pool, n) }

NoDoc == [attrib |-> <<>>, children |-> <<>>]

Failures == { [kind |-> k, doc |-> NoDoc] : k \in {"timeout", "http_error", "other_error"} }

RECURSIVE ElementsFetched(_)
ElementsFetched(log) ==
    IF log = <<>> THEN 0 ELSE Head(log).size + ElementsFetched(Tail(log))

\* The documents the next URL may serve in a whole run
Documents ==
    { [kind |-> "ok", doc |-> d] :
        d \in Docs(ElementPool, MaxElements - ElementsFetched(fetched), url_idx + 1) }

\* A custom_epg.xml left by an earlier run
OldFile == [attrib |-> [source |-> 0], children |-> <<Other>>]

Init ==
    /\ lines \in WhitelistFiles
    /\ output_file \in {<<>>, <<OldFile>>}
    /\ InitRest

Next ==
    \/ FileMissing
    \/ ReadLines
    \/ ReadLine
    \/ ReadReturn
    \/ CheckWhitelist
    \/ GetEpgData(Failures)
    \/ GetEpgData(Documents)
    \/ SkipSource
    \/ FilterSource
    \/ Dedupe
    \/ Generate

Spec == Init /\ [][Next]_vars

(***************************************************************************)
(* Runs with a richer last document: the last URL serves any document of   *)
(* at most MaxFilterChildren elements of FilterPool, after the earlier     *)
(* URLs failed or served a document with a whitelisted channel.            *)
(***************************************************************************)
EarlierResponses(n) ==
    { [kind |-> "timeout", doc |-> NoDoc],
      [kind |-> "ok", doc |-> [attrib |-> [source |-> n], children |-> <<Ch_ua, Pr_s_ua>>]] }

FilterResponses(n) ==
    IF n < MaxSources
    THEN EarlierResponses(n)
    ELSE { [kind |-> "ok", doc |-> d] : d \in Docs(FilterPool, MaxFilterChildren, n) }

FilterInit ==
    /\ lines \in {File_IdsAndNames, File_NameOnly}
    /\ output_file = <<>>
    /\ InitRest

FilterNext ==
    \/ ReadLines
    \/ ReadLine
    \/ ReadReturn
    \/ CheckWhitelist
    \/ GetEpgData(FilterResponses(url_idx + 1))
    \/ SkipSource
    \/ FilterSource
    \/ Dedupe
    \/ Generate

FilterSpec == FilterInit /\ [][FilterNext]_vars

(***************************************************************************)
(* Vocabulary of the properties, stated without the operators above.       *)
(***************************************************************************)
Min(S) == CHOOSE x \in S : \A y \in S : x <= y
Max(S) == CHOOSE x \in S : \A y \in S : y <= x

\* The elements of list that are the first with their key, in list order; keys[i] is
\* the key of list[i]
FirstOccurrences(list, keys) ==
    LET first == {i \in 1..Len(list) : \A j \in 1..(i - 1) : keys[j] # keys[i]}
        Nth(n) == CHOOSE i \in first : Cardinality({j \in first : j <= i}) = n
    IN  [n \in 1..Cardinality(first) |-> list[Nth(n)]]

Commas(raw) == {i \in 1..Len(raw) : raw[i] = ","}
NonBlank(raw) == {i \in 1..Len(raw) : raw[i] \notin Whitespace}
IsBlankLine(raw) == NonBlank(raw) = {}
IsCommentLine(raw) == ~IsBlankLine(raw) /\ raw[Min(NonBlank(raw))] = "#"
IsCountryLine(raw) == ~IsBlankLine(raw) /\ ~IsCommentLine(raw) /\ Commas(raw) = {}
HasThreeFields(raw) ==
    ~IsBlankLine(raw) /\ ~IsCommentLine(raw) /\ Cardinality(Commas(raw)) = 2
TvgIdOf(raw) == Strip(SubSeq(raw, 1, Min(Commas(raw)) - 1))
TvgNameOf(raw) == Strip(SubSeq(raw, Min(Commas(raw)) + 1, Max(Commas(raw)) - 1))
RemarkOf(raw) == Strip(SubSeq(raw, Max(Commas(raw)) + 1, Len(raw)))
CountryLinesBefore(f, k) == {j \in 1..(k - 1) : IsCountryLine(f[j])}
\* Line k of file f is a valid channel line
Accepted(f, k) ==
    /\ HasThreeFields(f[k])
    /\ CountryLinesBefore(f, k) # {}
    /\ (TvgIdOf(f[k]) # <<>> \/ TvgNameOf(f[k]) # <<>>)
AcceptedInfo(f, k) ==
    <<TvgIdOf(f[k]), TvgNameOf(f[k]), Strip(f[Max(CountryLinesBefore(f, k))]), RemarkOf(f[k])>>

WhitelistIds == {e.info[1] : e \in Range(channel_dict)} \ {<<>>}
WhitelistNames == {e.info[2] : e \in Range(channel_dict)} \ {<<>>}
TrimmedId(ch) == Strip(Get(ch.id))
TrimmedChannel(p) == Strip(Get(p.channel))
NamedIndexes(ch) ==
    {i \in 1..Len(ch.names) : ch.names[i] # <<>> /\ NonBlank(ch.names[i][1]) # {}}
IdMatches(ch) == TrimmedId(ch) \in WhitelistIds
NameMatches(ch) ==
    NamedIndexes(ch) # {} /\ Strip(ch.names[Min(NamedIndexes(ch))][1]) \in WhitelistNames

\* filter_channels has just returned chs, progs for the document epg_root
Filtered == pc = "loop" /\ Truthy(epg_root)
ChildrenOf(tag) == {e \in Range(epg_root[1].children) : e.tag = tag}
Deduped == pc \in {"generate", "done"}
OkFetched == {i \in 1..Len(fetched) : fetched[i].kind = "ok"}

(***************************************************************************)
(* C1: filter_channels includes a channel of the document if and only if   *)
(* its trimmed id is a non-empty whitelisted tvgId or its first non-empty  *)
(* trimmed display-name is a non-empty whitelisted tvgName; either test    *)
(* alone suffices, and a channel with neither is never included.           *)
(***************************************************************************)
C1_ChannelIncludedIffIdOrName ==
    Filtered =>
        /\ Range(chs) \subseteq ChildrenOf("channel")
        /\ \A ch \in ChildrenOf("channel") :
              ch \in Range(chs) <=> (IdMatches(ch) \/ NameMatches(ch))

\* one channel included by id alone, one by name alone, one left out
C1_Witness ==
    /\ Filtered
    /\ \E ch \in Range(chs) : IdMatches(ch) /\ ~NameMatches(ch)
    /\ \E ch \in Range(chs) : ~IdMatches(ch) /\ NameMatches(ch)
    /\ \E ch \in ChildrenOf("channel") : ch \notin Range(chs)

(***************************************************************************)
(* C2 as stated: the id of every included channel of the document, an      *)
(* empty or missing id too, is in the document's matched-id set, and a     *)
(* programme of the document is included if and only if its channel        *)
(* attribute is in that set.                                               *)
(***************************************************************************)
C2_Original ==
    Filtered =>
        LET matched == {TrimmedId(ch) : ch \in Range(chs)}
        IN  /\ Range(progs) \subseteq ChildrenOf("programme")
            /\ \A p \in ChildrenOf("programme") :
                  p \in Range(progs) <=> TrimmedChannel(p) \in matched

(***************************************************************************)
(* C2 amended: the matched-id set of a document holds the trimmed id of    *)
(* every included channel whose id attribute is present and not the empty  *)
(* string; a programme of the document is included if and only if its      *)
(* trimmed channel attribute is in that set, so never on the strength of a *)
(* channel included from another document.                                 *)
(***************************************************************************)
C2_ProgrammeIncludedIffOwnDocumentId ==
    Filtered =>
        LET matched == {TrimmedId(ch) : ch \in {c \in Range(chs) : Get(c.id) # <<>>}}
        IN  /\ Range(progs) \subseteq ChildrenOf("programme")
            /\ \A p \in ChildrenOf("programme") :
                  p \in Range(progs) <=> TrimmedChannel(p) \in matched

\* a programme is left out although a channel with its id was included from an earlier
\* document, next to an included channel without id
C2_Witness ==
    /\ Filtered
    /\ \E p \in ChildrenOf("programme") :
          /\ p \notin Range(progs)
          /\ \E c \in Range(all_filtered_channels) :
                c.uid[1] # url_idx /\ Get(c.id) # <<>> /\ TrimmedId(c) = TrimmedChannel(p)
    /\ \E c \in Range(chs) : Get(c.id) = <<>>

(***************************************************************************)
(* C3 as stated: the deduplicated channel list holds exactly one channel,  *)
(* the first, for each distinct id attribute value among the concatenated  *)
(* filtered channels (a missing id counting as the empty one), in          *)
(* first-seen order.                                                       *)
(***************************************************************************)
RawIds(list) == [i \in 1..Len(list) |-> Get(list[i].id)]

C3_Original ==
    Deduped =>
        unique_channels = FirstOccurrences(all_filtered_channels, RawIds(all_filtered_channels))

(***************************************************************************)
(* C3 amended: the deduplicated channel list holds exactly one channel,    *)
(* the first, for each distinct trimmed id value among the concatenated    *)
(* filtered channels (missing, empty and blank ids sharing one key), in    *)
(* first-seen order.                                                       *)
(***************************************************************************)
TrimmedIds(list) == [i \in 1..Len(list) |-> TrimmedId(list[i])]

C3_OneChannelPerTrimmedId ==
    Deduped =>
        unique_channels
            = FirstOccurrences(all_filtered_channels, TrimmedIds(all_filtered_channels))

\* a channel of the second document is dropped for one of the first, another is kept
C3_Witness ==
    /\ pc = "done"
    /\ Len(unique_channels) = 2
    /\ unique_channels[1].uid[1] = 1
    /\ unique_channels[2].uid[1] = 2
    /\ \E c \in Range(all_filtered_channels) :
          c \notin Range(unique_channels) /\ c.uid[1] = 2

(***************************************************************************)
(* C4: the deduplicated programme list holds exactly one programme, the    *)
(* first, for each distinct (start, channel) pair among the concatenated   *)
(* filtered programmes; programmes whose pairs differ are all retained.    *)
(***************************************************************************)
StartChannelPairs(list) ==
    [i \in 1..Len(list) |-> <<Strip(Get(list[i].start)), TrimmedChannel(list[i])>>]

C4_OneProgrammePerPair ==
    Deduped =>
        unique_programmes
            = FirstOccurrences(all_filtered_programmes, StartChannelPairs(all_filtered_programmes))

(***************************************************************************)
(* C5: read_channel_list changes the mapping only on a line with exactly   *)
(* three fields that follows a country line and has a non-empty tvgId or   *)
(* tvgName; the entry it then stores carries the most recent country; any  *)
(* other line leaves the mapping unchanged.                                *)
(***************************************************************************)
C5_OnlyValidLinesAddEntries ==
    [][line_num' = line_num + 1 =>
         LET f == lines[1]
             k == line_num'
         IN  IF Accepted(f, k)
             THEN /\ \E e \in Range(channel_dict') : e.info = AcceptedInfo(f, k)
                  /\ \A e \in Range(channel_dict') :
                        e \in Range(channel_dict) \/ e.info = AcceptedInfo(f, k)
             ELSE channel_dict' = channel_dict]_vars

\* a channel line before any country line was skipped, a later one was stored
C5_Witness ==
    /\ pc = "check"
    /\ lines # <<>>
    /\ Len(lines[1]) = 3
    /\ HasThreeFields(lines[1][1])
    /\ IsCountryLine(lines[1][2])
    /\ Accepted(lines[1], 3)
    /\ Len(channel_dict) = 1
    /\ channel_dict[1].info = AcceptedInfo(lines[1], 3)

(***************************************************************************)
(* C6: the run ends with a failure status if and only if the loaded        *)
(* whitelist mapping is empty, and then no source is fetched; with a       *)
(* non-empty whitelist the run always completes with a success status.     *)
(***************************************************************************)
C6_StatusInv ==
    /\ exit_status = <<1>> <=> pc = "exited"
    /\ exit_status = <<0>> <=> pc = "done"
    /\ pc = "exited" => channel_dict = <<>> /\ fetched = <<>> /\ url_idx = 0
    /\ pc \in {"loop", "fetched", "generate", "done"} => channel_dict # <<>>

\* An upper bound of the number of steps the run has left
C6_StepsLeft ==
    CASE pc = "start" -> (IF lines = <<>> THEN 0 ELSE Len(lines[1])) + 2 * MaxSources + 6
      [] pc = "read" -> (Len(lines[1]) - line_num) + 2 * MaxSources + 5
      [] pc = "check" -> 2 * MaxSources + 4
      [] pc = "loop" -> 2 * (MaxSources - url_idx) + 3
      [] pc = "fetched" -> 2 * (MaxSources - url_idx) + 4
      [] pc = "generate" -> 2
      [] pc = "done" -> 1
      [] pc = "exited" -> 0

\* The status is the whitelist's verdict; the run is never stuck before its end, and
\* every step brings the end nearer, so that the end is always reached.
C6_FailsIffWhitelistEmpty ==
    /\ [](C6_StatusInv /\ (pc \in {"done", "exited"} \/ ENABLED Next))
    /\ [][C6_StepsLeft' < C6_StepsLeft /\ C6_StepsLeft' >= 0]_vars

\* every source failed, in different ways, and the run succeeded
C6_Witness ==
    /\ pc = "done"
    /\ exit_status = <<0>>
    /\ OkFetched = {}
    /\ Cardinality({fetched[i].kind : i \in 1..Len(fetched)}) > 1

(***************************************************************************)
(* C7: the output file is written only when the deduplicated channel list  *)
(* is non-empty; with an empty list, or with every fetch failed, the file  *)
(* is left as it was and the run still ends with a success status.         *)
(***************************************************************************)
C7_WrittenOnlyWithChannels ==
    [][/\ output_file' # output_file => unique_channels' # <<>> /\ OkFetched' # {}
       /\ pc' = "done" => exit_status' = <<0>>]_vars

\* a document was fetched, nothing matched, the old file is still there
C7_Witness ==
    /\ pc = "done"
    /\ OkFetched # {}
    /\ first_epg_root # <<>>
    /\ unique_channels = <<>>
    /\ output_file = <<OldFile>>
    /\ exit_status = <<0>>

(***************************************************************************)
(* C8: a written output document carries the root attributes of the first  *)
(* source, in URL order, that was fetched and parsed successfully (even    *)
(* one without child elements), followed by the deduplicated channels and  *)
(* then the deduplicated programmes.                                       *)
(***************************************************************************)
C8_RootOfFirstFetchedSource ==
    (pc = "done" /\ output_file \notin {<<>>, <<OldFile>>}) =>
        /\ OkFetched # {}
        /\ output_file[1].attrib = fetched[Min(OkFetched)].attrib
        /\ output_file[1].children = unique_channels \o unique_programmes

(***************************************************************************)
(* C9: after deduplication every programme of the deduplicated list has a  *)
(* trimmed channel attribute equal to the trimmed id of some channel of    *)
(* the deduplicated channel list.                                          *)
(***************************************************************************)
C9_ProgrammesReferToKeptChannels ==
    Deduped =>
        \A p \in Range(unique_programmes) :
            \E c \in Range(unique_channels) : TrimmedChannel(p) = TrimmedId(c)

\* a kept programme whose own document's channel was dropped as a duplicate
C9_Witness ==
    /\ pc = "done"
    /\ \E p \in Range(unique_programmes) :
          /\ \A c \in Range(unique_channels) :
                TrimmedChannel(p) = TrimmedId(c) => c.uid[1] # p.uid[1]
          /\ \E c \in Range(all_filtered_channels) :
                c.uid[1] = p.uid[1] /\ TrimmedChannel(p) = TrimmedId(c)

(***************************************************************************)
(* C10: no valid whitelist line is lost: the non-empty tvgId and tvgName   *)
(* of every accepted line are among the target ids and names used by       *)
(* filter_channels, and two accepted lines share a mapping entry only when *)
(* both their tvgId and their tvgName are equal.                           *)
(***************************************************************************)
C10_NoValidLineLost ==
    lines # <<>> =>
        LET f == lines[1]
            accepted == {k \in 1..line_num : Accepted(f, k)}
        IN  /\ \A k \in accepted :
                  /\ TvgIdOf(f[k]) # <<>> => TvgIdOf(f[k]) \in Range(target_tvg_ids(channel_dict))
                  /\ TvgNameOf(f[k]) # <<>> =>
                        TvgNameOf(f[k]) \in Range(target_tvg_names(channel_dict))
            /\ Len(channel_dict) = Cardinality({<<TvgIdOf(f[k]), TvgNameOf(f[k])>> : k \in accepted})

====
